---- MODULE Spec2Model ----
(***************************************************************************)
(* Model of the traffic-threat pipeline of PiResearch:                     *)
(*   - AdvancedLogger (tools/scanners/owasp_traffic_scanner/               *)
(*     logger_service.py): bounded queue, flush worker, background flush   *)
(*     threads, synchronous flushes, rotation and emergency fallback;      *)
(*   - the reputation map of PiChatAdvancedTrafficAnalyzer                 *)
(*     (advanced_traffic_analyzer.py).                                     *)
(* Threads are interleaved at the granularity of the calls that touch      *)
(* shared state (queue operations, lock operations, file system calls).    *)
(***************************************************************************)
EXTENDS Integers, Sequences, FiniteSets, TLC

\* ------------------------------------------------------------------ bounds
MaxEntries == 3      \* log_event calls made in one run
MaxShutdowns == 2    \* shutdown() calls made in one run
MaxClock == 1        \* clock seconds that pass in one run (within one day)
MaxFaults == 1       \* failing file system calls the environment injects in one run
MaxBufferSize == 1   \* the largest buffer_size given to the constructor
MaxConcurrentCalls == 3  \* hybrid_analysis calls in a behaviour of ConcurrentSpec
MaxRequests == 1     \* hybrid_analysis calls in a behaviour of HybridSpec
MaxSequence == 5     \* hybrid_analysis calls in a behaviour of SequenceSpec
MaxFileSize == 3     \* the largest max_file_size, counted in rows instead of bytes

\* ------------------------------------------------------------- the logger
Callers == {"c1", "c2"}              \* threads that call log_event
Owner == "c1"                        \* the caller that also calls shutdown()
Worker == "w"                        \* the flush_worker thread
Bg == "b"                            \* the background flush thread holding the lock
Threads == Callers \cup {Worker, Bg}

HeaderRow == 0                       \* headers + ['timestamp']
NoFile == <<-1>>                     \* a path at which no file exists
Entries == 1..MaxEntries             \* a data row is the id of its entry

\* log_event(log_type, headers, data): the lists the callers pass with each
\* entry, by their lengths. The first entry has two headers and two values,
\* the second three headers and two values, the later ones three and three.
HeaderFields(e) == IF e = 1 THEN 2 ELSE 3
DataFields(e) == IF e <= 2 THEN 2 ELSE 3
\* The columns of the rows that _write_log_entry_sync writes for an entry:
\* headers + ['timestamp'] and data + [datetime.now().isoformat()].
HeaderColumns(e) == HeaderFields(e) + 1
DataColumns(e) == DataFields(e) + 1

IPs == {"10.0.0.1", "10.0.0.2"}      \* source identifiers
Absent == -1                         \* a key the defaultdict does not hold yet
NoCall == [ip |-> "none", is_threat |-> FALSE, fresh |-> FALSE, ret |-> Absent]
AnalyserThreads == {"a1", "a2"}    \* threads calling hybrid_analysis
NoAnalysis == [call |-> "none"]
IdleThread == [pc |-> "idle", ip |-> "none", is_threat |-> FALSE, old |-> Absent,
               event |-> NoAnalysis, final_decision |-> NoAnalysis]

VARIABLES
    buffer_size,    \* self.buffer_size
    max_file_size,  \* self.max_file_size
    log_buffer,     \* queue.Queue(maxsize=buffer_size): entries, head first
    flush_lock,     \* the thread holding flush_lock, or "free"
    running,        \* self.running
    file,           \* rows of the current log file {log_type}_{date}.csv, or NoFile
    archive,        \* archive/{log_type}_{timestamp}.csv, by timestamp second
    emergency,      \* entries recorded in emergency.log
    now,            \* the clock, in seconds
    faults,         \* failing file system calls injected so far
    pc,             \* each thread's position
    log_entry,      \* each thread's local log_entry being written (0: none)
    file_exists,    \* each thread's local file_exists
    inFlush,        \* whether the thread is inside _flush_buffer
    op,             \* the call a caller is in: "none" | "log_event" | "shutdown"
    cur,            \* the entry of the caller's log_event call (0: none)
    bgPending,      \* background flush threads started and waiting for the lock
    nextId,         \* the next entry id
    written,        \* history: entries in the order their row was appended to a log file
    result,         \* history: what log_event returned for each entry
    overlap,        \* history: two log_event calls have run at the same time
    escaped,        \* history: entries held when an exception left _write_log_entry_sync
    emergFailed,    \* history: entries whose emergency write failed (swallowed)
    sdCalled,       \* history: shutdown() calls started
    sdReturned,     \* history: shutdown() calls that returned
    sdRaised,       \* history: shutdown() calls that raised
    sdSnap,         \* history: entries queued when shutdown() was first called, not yet recorded
    lateLog,        \* history: a log_event was in progress at, or started after, shutdown()
    afterSd,        \* history: the caller is in a log_event call started after shutdown()
    flushed,        \* history: entries the _flush_buffer of the caller's log_event call has taken
    reputation_scores, \* defaultdict(lambda: 100): the keys present and their scores
    repCall,        \* the last calculate_reputation_score call and what it returned
    analysis,       \* the last _fusion_decision or hybrid_analysis call and its result
    analysed,       \* history: hybrid_analysis calls started
    th,             \* each analyser thread's position in hybrid_analysis and its locals
    updates,        \* history: the reputation updates decided, as <<ip, is_threat>>
    stats           \* self.stats

fsVars == <<file, archive, emergency>>
envVars == <<now, faults>>
qVars == <<buffer_size, max_file_size, log_buffer, running, bgPending>>
ctlRest == <<log_entry, inFlush, op, cur, flushed, afterSd, flush_lock, result, overlap,
             sdReturned, sdRaised, escaped>>
ctlVars == <<pc, ctlRest>>
histVars == <<written, emergFailed, sdCalled, sdSnap, lateLog>>
anVars == <<analysis, analysed, th, updates, stats>>
repVars == <<reputation_scores, repCall, anVars>>
logVars == <<fsVars, envVars, qVars, ctlVars, histVars, file_exists, nextId>>
vars == <<logVars, repVars>>

Exists(f) == f # NoFile
GetSize(f) == Len(f)
Range(s) == {s[i] : i \in 1..Len(s)}

\* ------------------------------------------------------------------- Init
LogInit ==
    \* the constructor takes any buffer_size; 0 is the smallest modelled here
    /\ buffer_size \in 0..MaxBufferSize
    \* a file holds its header row and a data row at least, so every
    \* threshold below 2 rows behaves as 2
    /\ max_file_size \in 2..MaxFileSize
    /\ log_buffer = <<>>
    /\ flush_lock = "free"
    /\ running = TRUE
    /\ file = NoFile
    /\ archive = [s \in 0..MaxClock |-> NoFile]
    /\ emergency = <<>>
    /\ now = 0
    /\ faults = 0
    /\ pc = [t \in Threads |->
                IF t = Worker THEN "wk_loop" ELSE IF t = Bg THEN "none" ELSE "idle"]
    /\ log_entry = [t \in Threads |-> 0]
    /\ file_exists = [t \in Threads |-> FALSE]
    /\ inFlush = [t \in Threads |-> FALSE]
    /\ op = [t \in Callers |-> "none"]
    /\ cur = [t \in Callers |-> 0]
    /\ bgPending = 0
    /\ nextId = 1
    /\ written = <<>>
    /\ result = [e \in Entries |-> "none"]
    /\ overlap = FALSE
    /\ escaped = {}
    /\ emergFailed = {}
    /\ sdCalled = 0
    /\ sdReturned = 0
    /\ sdRaised = 0
    /\ sdSnap = {}
    /\ lateLog = FALSE
    /\ afterSd = [t \in Callers |-> FALSE]
    /\ flushed = [t \in Callers |-> 0]

\* self.stats = {...}: the counters at 0, the history empty; a key that a
\* defaultdict(int) does not hold yet reads as 0.
ThreatTypes == {"sql", "xss"}
ConfidenceBuckets == {0, 10, 20, 30, 40, 50, 60, 70, 80, 90, 100}
InitialStats ==
    [total_requests |-> 0,
     threats_detected |-> 0,
     false_positives |-> 0,
     true_positives |-> 0,
     threats_by_type |-> [k \in ThreatTypes |-> 0],
     confidence_distribution |-> [b \in ConfidenceBuckets |-> 0],
     decision_history |-> <<>>]

AnInit ==
    /\ analysis = NoAnalysis
    /\ analysed = 0
    /\ th = [t \in AnalyserThreads |-> IdleThread]
    /\ updates = <<>>
    /\ stats = InitialStats

RepInit ==
    /\ reputation_scores = [ip \in IPs |-> Absent]
    /\ repCall = NoCall
    /\ AnInit

Init == LogInit /\ RepInit

\* ------------------------------------------------- returns and exceptions
\* The thread goes on to position l.
Goto(t, l) == pc' = [pc EXCEPT ![t] = l] /\ UNCHANGED ctlRest

\* log_event returns r for the caller's entry.
LogEventReturn(t, r) ==
    /\ pc' = [pc EXCEPT ![t] = "idle"]
    /\ op' = [op EXCEPT ![t] = "none"]
    /\ cur' = [cur EXCEPT ![t] = 0]
    /\ flushed' = [flushed EXCEPT ![t] = 0]
    /\ afterSd' = [afterSd EXCEPT ![t] = FALSE]
    /\ log_entry' = [log_entry EXCEPT ![t] = 0]
    /\ inFlush' = [inFlush EXCEPT ![t] = FALSE]
    /\ result' = [result EXCEPT ![cur[t]] = r]
    /\ UNCHANGED <<flush_lock, overlap, sdReturned, sdRaised, escaped>>

\* _write_log_entry_sync returns ok to whoever called it: the loop of
\* _flush_buffer, the loop of flush_worker, or log_event's last resort.
WriteReturn(t, ok) ==
    IF inFlush[t]
    THEN /\ pc' = [pc EXCEPT ![t] = "f_get"]
         /\ log_entry' = [log_entry EXCEPT ![t] = 0]
         /\ UNCHANGED <<inFlush, op, cur, flushed, afterSd, flush_lock, result, overlap,
                        sdReturned, sdRaised, escaped>>
    ELSE IF t = Worker
    THEN /\ pc' = [pc EXCEPT ![t] = "wk_loop"]
         /\ log_entry' = [log_entry EXCEPT ![t] = 0]
         /\ UNCHANGED <<inFlush, op, cur, flushed, afterSd, flush_lock, result, overlap,
                        sdReturned, sdRaised, escaped>>
    ELSE LogEventReturn(t, IF ok THEN "true" ELSE "false")

\* _flush_buffer returns (the with block releases flush_lock).
FlushReturn(t) ==
    /\ flush_lock' = "free"
    /\ inFlush' = [inFlush EXCEPT ![t] = FALSE]
    /\ UNCHANGED <<log_entry, cur, flushed, afterSd, result, overlap, sdRaised, escaped>>
    /\ IF t = Worker
       THEN pc' = [pc EXCEPT ![t] = "wk_loop"] /\ UNCHANGED <<op, sdReturned>>
       ELSE IF t = Bg
       THEN pc' = [pc EXCEPT ![t] = "none"] /\ UNCHANGED <<op, sdReturned>>
       ELSE IF op[t] = "log_event"
       THEN pc' = [pc EXCEPT ![t] = "le_retry"] /\ UNCHANGED <<op, sdReturned>>
       ELSE /\ pc' = [pc EXCEPT ![t] = "idle"]
            /\ op' = [op EXCEPT ![t] = "none"]
            /\ sdReturned' = sdReturned + 1

\* An exception leaves _write_log_entry_sync (nothing there catches an error
\* of _needs_rotation or _rotate_log). _flush_buffer catches queue.Empty only,
\* so its with block releases the lock and the exception goes on: it ends the
\* worker or background thread, or is raised to the caller of log_event or
\* shutdown.
Raise(t) ==
    /\ flush_lock' = IF flush_lock = t THEN "free" ELSE flush_lock
    /\ inFlush' = [inFlush EXCEPT ![t] = FALSE]
    /\ log_entry' = [log_entry EXCEPT ![t] = 0]
    /\ escaped' = escaped \cup {log_entry[t]}
    /\ UNCHANGED <<overlap, sdReturned>>
    /\ IF t = Worker
       THEN /\ pc' = [pc EXCEPT ![t] = "dead"]
            /\ UNCHANGED <<op, cur, flushed, afterSd, result, sdRaised>>
       ELSE IF t = Bg
       THEN /\ pc' = [pc EXCEPT ![t] = "none"]
            /\ UNCHANGED <<op, cur, flushed, afterSd, result, sdRaised>>
       ELSE /\ pc' = [pc EXCEPT ![t] = "idle"]
            /\ op' = [op EXCEPT ![t] = "none"]
            /\ cur' = [cur EXCEPT ![t] = 0]
            /\ flushed' = [flushed EXCEPT ![t] = 0]
            /\ afterSd' = [afterSd EXCEPT ![t] = FALSE]
            /\ result' = IF op[t] = "log_event"
                         THEN [result EXCEPT ![cur[t]] = "raised"] ELSE result
            /\ sdRaised' = IF op[t] = "shutdown" THEN sdRaised + 1 ELSE sdRaised

\* ------------------------------------------------ _write_log_entry_sync
\* The environment may fail a file system call while its budget lasts.
CanFail == faults < MaxFaults

\* _needs_rotation, first half: os.path.exists(file_path).
NeedsRotationExists(t) ==
    /\ pc[t] = "w_needs"
    /\ Goto(t, IF Exists(file) THEN "w_getsize" ELSE "w_fexists")
    /\ UNCHANGED <<fsVars, envVars, qVars, histVars, file_exists, nextId, repVars>>

\* The size at which a file is rotated: getsize(file_path) >= max_file_size.
AtMaxSize(f) == GetSize(f) >= max_file_size

\* _needs_rotation, second half: os.path.getsize(file_path) >= max_file_size;
\* getsize raises when the file was renamed away since the exists() call.
NeedsRotationGetSize(t) ==
    /\ pc[t] = "w_getsize"
    /\ UNCHANGED <<fsVars, envVars, qVars, histVars, file_exists, nextId, repVars>>
    /\ IF ~Exists(file)
       THEN Raise(t)
       ELSE Goto(t, IF AtMaxSize(file) THEN "w_rot_exists" ELSE "w_fexists")

\* _rotate_log: if os.path.exists(current_path).
RotateExists(t) ==
    /\ pc[t] = "w_rot_exists"
    /\ Goto(t, IF Exists(file) THEN "w_rename" ELSE "w_fexists")
    /\ UNCHANGED <<fsVars, envVars, qVars, histVars, file_exists, nextId, repVars>>

\* The archive path of a rotation: archive/{log_type}_{%Y%m%d_%H%M%S}.csv.
ArchivedPath(clock) == clock

\* _rotate_log: os.rename(current_path, archived_path). POSIX rename replaces
\* an existing destination silently; it raises when the source is gone.
RotateRename(t) ==
    /\ pc[t] = "w_rename"
    /\ UNCHANGED <<emergency, now, qVars, histVars, file_exists, nextId, repVars>>
    /\ \/ /\ Exists(file)
          /\ archive' = [archive EXCEPT ![ArchivedPath(now)] = file]
          /\ file' = NoFile
          /\ Goto(t, "w_fexists")
          /\ UNCHANGED faults
       \/ /\ ~Exists(file)
          /\ Raise(t)
          /\ UNCHANGED <<file, archive, faults>>
       \/ /\ Exists(file)
          /\ CanFail
          /\ faults' = faults + 1
          /\ Raise(t)
          /\ UNCHANGED <<file, archive>>

\* file_exists = os.path.exists(log_path)
FileExists(t) ==
    /\ pc[t] = "w_fexists"
    /\ file_exists' = [file_exists EXCEPT ![t] = Exists(file)]
    /\ Goto(t, "w_open")
    /\ UNCHANGED <<fsVars, envVars, qVars, histVars, nextId, repVars>>

\* The rows one write appends: the header row when file_exists was false,
\* then the data row.
RowsWritten(fe, e) == IF fe THEN <<e>> ELSE <<HeaderRow, e>>

\* with open(log_path, 'a'): writer.writerow(...); return True. An error of
\* open or of the write goes to the except branch.
OpenAppend(t) ==
    /\ pc[t] = "w_open"
    /\ file_exists' = [file_exists EXCEPT ![t] = FALSE]
    /\ UNCHANGED <<archive, emergency, now, qVars, nextId, repVars>>
    /\ UNCHANGED <<emergFailed, sdCalled, lateLog>>
    /\ \/ /\ file' = (IF Exists(file) THEN file ELSE <<>>)
                        \o RowsWritten(file_exists[t], log_entry[t])
          /\ written' = Append(written, log_entry[t])
          /\ sdSnap' = sdSnap \ {log_entry[t]}
          /\ WriteReturn(t, TRUE)
          /\ UNCHANGED faults
       \/ /\ CanFail
          /\ faults' = faults + 1
          /\ Goto(t, "w_emerg")
          /\ UNCHANGED <<file, written, sdSnap>>

\* _write_emergency_log, then return False. An error of the emergency write
\* is swallowed (except: pass).
WriteEmergencyLog(t) ==
    /\ pc[t] = "w_emerg"
    /\ UNCHANGED <<file, archive, envVars, qVars, file_exists, nextId, repVars>>
    /\ UNCHANGED <<written, sdCalled, lateLog>>
    /\ WriteReturn(t, FALSE)
    /\ \/ /\ emergency' = Append(emergency, log_entry[t])
          /\ sdSnap' = sdSnap \ {log_entry[t]}
          /\ UNCHANGED emergFailed
       \/ /\ emergFailed' = emergFailed \cup {log_entry[t]}
          /\ UNCHANGED <<emergency, sdSnap>>

\* ---------------------------------------------------------- _flush_buffer
\* with self.flush_lock: (blocks until the lock is free)
FlushAcquire(t) ==
    /\ pc[t] = "f_lock"
    /\ flush_lock = "free"
    /\ flush_lock' = t
    /\ pc' = [pc EXCEPT ![t] = "f_get"]
    /\ UNCHANGED <<log_entry, inFlush, op, cur, flushed, afterSd, result, overlap,
                   sdReturned, sdRaised, escaped>>
    /\ UNCHANGED <<fsVars, envVars, qVars, histVars, file_exists, nextId, repVars>>

\* while not self.log_buffer.empty(): log_entry = self.log_buffer.get_nowait()
\* (an empty queue ends the loop at the test, or at get_nowait by queue.Empty
\* and break: either way _flush_buffer returns).
FlushGet(t) ==
    /\ pc[t] = "f_get"
    /\ UNCHANGED <<fsVars, envVars, buffer_size, max_file_size, running, bgPending, histVars,
                   file_exists, nextId, repVars>>
    /\ IF log_buffer = <<>>
       THEN FlushReturn(t) /\ UNCHANGED log_buffer
       ELSE /\ log_buffer' = Tail(log_buffer)
            /\ log_entry' = [log_entry EXCEPT ![t] = Head(log_buffer)]
            /\ pc' = [pc EXCEPT ![t] = "w_needs"]
            /\ flushed' = IF t \in Callers /\ op[t] = "log_event"
                          THEN [flushed EXCEPT ![t] = @ + 1] ELSE flushed
            /\ UNCHANGED <<inFlush, op, cur, afterSd, flush_lock, result,
                           overlap, sdReturned, sdRaised, escaped>>

\* ----------------------------------------------------------- flush_worker
\* while self.running:
WorkerLoop ==
    /\ pc[Worker] = "wk_loop"
    /\ Goto(Worker, IF running THEN "wk_get" ELSE "exited")
    /\ UNCHANGED <<fsVars, envVars, qVars, histVars, file_exists, nextId, repVars>>

\* log_entry = self.log_buffer.get(timeout=5); self._write_log_entry_sync(...)
WorkerGet ==
    /\ pc[Worker] = "wk_get"
    /\ log_buffer # <<>>
    /\ log_buffer' = Tail(log_buffer)
    /\ log_entry' = [log_entry EXCEPT ![Worker] = Head(log_buffer)]
    /\ pc' = [pc EXCEPT ![Worker] = "w_needs"]
    /\ UNCHANGED <<inFlush, op, cur, flushed, afterSd, flush_lock, result, overlap,
                   sdReturned, sdRaised, escaped>>
    /\ UNCHANGED <<fsVars, envVars, buffer_size, max_file_size, running, bgPending, histVars,
                   file_exists, nextId, repVars>>

\* except queue.Empty: self._flush_buffer()   (the get timed out)
WorkerTimeout ==
    /\ pc[Worker] = "wk_get"
    /\ log_buffer = <<>>
    /\ pc' = [pc EXCEPT ![Worker] = "f_lock"]
    /\ inFlush' = [inFlush EXCEPT ![Worker] = TRUE]
    /\ UNCHANGED <<log_entry, op, cur, flushed, afterSd, flush_lock, result, overlap,
                   sdReturned, sdRaised, escaped>>
    /\ UNCHANGED <<fsVars, envVars, qVars, histVars, file_exists, nextId, repVars>>

\* ------------------------------------------- background flush threads
\* threading.Thread(target=self._flush_buffer).start(): the thread runs
\* _flush_buffer once it gets the lock, and ends when _flush_buffer returns.
BgAcquire ==
    /\ bgPending > 0
    /\ pc[Bg] = "none"
    /\ flush_lock = "free"
    /\ bgPending' = bgPending - 1
    /\ flush_lock' = Bg
    /\ inFlush' = [inFlush EXCEPT ![Bg] = TRUE]
    /\ pc' = [pc EXCEPT ![Bg] = "f_get"]
    /\ UNCHANGED <<log_entry, op, cur, flushed, afterSd, result, overlap, sdReturned,
                   sdRaised, escaped>>
    /\ UNCHANGED <<fsVars, envVars, buffer_size, max_file_size, log_buffer, running, histVars,
                   file_exists, nextId, repVars>>

\* -------------------------------------------------------------- log_event
\* queue.Queue(maxsize=buffer_size): put_nowait raises queue.Full when the
\* queue holds maxsize entries; a maxsize of 0 or less means a queue without
\* a limit, which is never full.
QueueFull(q) == buffer_size > 0 /\ Len(q) >= buffer_size

\* log_entry = {...}; self.log_buffer.put_nowait(log_entry); on queue.Full
\* the call goes on to self._flush_buffer().
LogEventPut(t) ==
    /\ pc[t] = "idle"
    /\ nextId <= MaxEntries
    /\ nextId' = nextId + 1
    /\ op' = [op EXCEPT ![t] = "log_event"]
    /\ cur' = [cur EXCEPT ![t] = nextId]
    /\ UNCHANGED flushed
    /\ afterSd' = [afterSd EXCEPT ![t] = sdCalled > 0]
    /\ lateLog' = (lateLog \/ sdCalled > 0)
    /\ IF ~QueueFull(log_buffer)
       THEN /\ log_buffer' = Append(log_buffer, nextId)
            /\ pc' = [pc EXCEPT ![t] = "le_qsize"]
            /\ UNCHANGED inFlush
       ELSE /\ pc' = [pc EXCEPT ![t] = "f_lock"]
            /\ inFlush' = [inFlush EXCEPT ![t] = TRUE]
            /\ UNCHANGED log_buffer
    /\ overlap' = (overlap \/ \E c \in Callers \ {t} : op[c] = "log_event")
    /\ UNCHANGED <<log_entry, flush_lock, result, sdReturned, sdRaised, escaped>>
    /\ UNCHANGED <<fsVars, envVars, buffer_size, max_file_size, running, bgPending,
                   file_exists, repVars>>
    /\ UNCHANGED <<written, emergFailed, sdCalled, sdSnap>>

\* The test that starts a background flush: qsize() >= buffer_size // 2.
HalfFull(n) == n >= buffer_size \div 2

\* if self.log_buffer.qsize() >= self.buffer_size // 2:
\*     threading.Thread(target=self._flush_buffer, daemon=True).start()
\* return True
LogEventQsize(t) ==
    /\ pc[t] = "le_qsize"
    /\ bgPending' = IF HalfFull(Len(log_buffer)) THEN bgPending + 1 ELSE bgPending
    /\ LogEventReturn(t, "true")
    /\ UNCHANGED <<fsVars, envVars, buffer_size, max_file_size, log_buffer, running, histVars,
                   file_exists, nextId, repVars>>

\* After the synchronous flush: put_nowait again, return True; on queue.Full
\* return self._write_log_entry_sync(log_entry).
LogEventRetry(t) ==
    /\ pc[t] = "le_retry"
    /\ UNCHANGED <<fsVars, envVars, buffer_size, max_file_size, running, bgPending, histVars,
                   file_exists, nextId, repVars>>
    /\ IF ~QueueFull(log_buffer)
       THEN /\ log_buffer' = Append(log_buffer, cur[t])
            /\ LogEventReturn(t, "true")
       ELSE /\ log_entry' = [log_entry EXCEPT ![t] = cur[t]]
            /\ pc' = [pc EXCEPT ![t] = "w_needs"]
            /\ UNCHANGED <<log_buffer, inFlush, op, cur, flushed, afterSd, flush_lock,
                           result, overlap, sdReturned, sdRaised, escaped>>

\* --------------------------------------------------------------- shutdown
\* self.running = False
ShutdownStart(t) ==
    /\ pc[t] = "idle"
    /\ sdCalled < MaxShutdowns
    /\ sdCalled' = sdCalled + 1
    /\ running' = FALSE
    /\ op' = [op EXCEPT ![t] = "shutdown"]
    /\ pc' = [pc EXCEPT ![t] = "sd_join"]
    /\ sdSnap' = IF sdCalled = 0 THEN Range(log_buffer) ELSE sdSnap
    /\ lateLog' = (lateLog \/ \E c \in Callers : op[c] = "log_event")
    /\ UNCHANGED <<log_entry, inFlush, cur, flushed, afterSd, flush_lock, result, overlap,
                   sdReturned, sdRaised, escaped>>
    /\ UNCHANGED <<fsVars, envVars, buffer_size, max_file_size, log_buffer, bgPending,
                   file_exists, nextId, repVars>>
    /\ UNCHANGED <<written, emergFailed>>

WorkerEnded == pc[Worker] \in {"exited", "dead"}

\* shutdown() as it would be with the thread handle cleared after the join
\* and no test of it before the join: a second call raises AttributeError.
ShutdownJoinUnguarded(t) ==
    /\ pc[t] = "sd_join"
    /\ IF sdCalled >= 2
       THEN /\ pc' = [pc EXCEPT ![t] = "idle"]
            /\ op' = [op EXCEPT ![t] = "none"]
            /\ sdRaised' = sdRaised + 1
            /\ UNCHANGED inFlush
       ELSE /\ pc' = [pc EXCEPT ![t] = "f_lock"]
            /\ inFlush' = [inFlush EXCEPT ![t] = TRUE]
            /\ UNCHANGED <<op, sdRaised>>
    /\ UNCHANGED <<log_entry, cur, flushed, afterSd, flush_lock, result, overlap,
                   sdReturned, escaped>>
    /\ UNCHANGED <<fsVars, envVars, qVars, histVars, file_exists, nextId, repVars>>

\* if self.flush_thread: self.flush_thread.join(timeout=5); then the call
\* goes on to self._flush_buffer(). join returns when the worker has ended
\* or when the timeout has passed.
ShutdownJoin(t) ==
    /\ pc[t] = "sd_join"
    /\ pc' = [pc EXCEPT ![t] = "f_lock"]
    /\ inFlush' = [inFlush EXCEPT ![t] = TRUE]
    /\ UNCHANGED <<log_entry, op, cur, flushed, afterSd, flush_lock, result, overlap,
                   sdReturned, sdRaised, escaped>>
    /\ UNCHANGED <<fsVars, envVars, qVars, histVars, file_exists, nextId, repVars>>

\* ------------------------------------------------------------ environment
\* A second passes on the clock read by datetime.now(). (The clock is read
\* for archive names only, so a second in which nothing was archived is not
\* told apart from the next.)
Tick ==
    /\ now < MaxClock
    /\ Exists(archive[now])
    /\ now' = now + 1
    /\ UNCHANGED <<fsVars, faults, qVars, ctlVars, histVars, file_exists, nextId,
                   repVars>>

\* ----------------------------------------------------- the logger's steps
LogNext ==
    \/ \E t \in Threads :
          \/ NeedsRotationExists(t)
          \/ NeedsRotationGetSize(t)
          \/ RotateExists(t)
          \/ RotateRename(t)
          \/ FileExists(t)
          \/ OpenAppend(t)
          \/ WriteEmergencyLog(t)
          \/ FlushAcquire(t)
          \/ FlushGet(t)
    \/ WorkerLoop
    \/ WorkerGet
    \/ WorkerTimeout
    \/ BgAcquire
    \/ \E t \in Callers :
          \/ LogEventPut(t)
          \/ LogEventQsize(t)
          \/ LogEventRetry(t)
    \/ ShutdownStart(Owner)
    \/ ShutdownJoin(Owner)
    \/ Tick

Spec == Init /\ [][LogNext]_vars

\* ------------------------------------------------- the reputation tracker
DefaultReputation == 100     \* defaultdict(lambda: 100)
ThreatPenalty == 20          \* score - 20 on a threat
CleanReward == 1             \* score + 1 otherwise
MinReputation == 0
MaxReputation == 100

Max(a, b) == IF a >= b THEN a ELSE b
Min(a, b) == IF a <= b THEN a ELSE b

\* self.reputation_scores[ip]: a missing key reads as the default (and the
\* defaultdict then holds it).
GetReputation(scores, ip) ==
    IF scores[ip] = Absent THEN DefaultReputation ELSE scores[ip]

\* The score calculate_reputation_score stores.
ReputationAfterNoFloor(score, is_threat) ==
    IF is_threat THEN score - ThreatPenalty
    ELSE Min(MaxReputation, score + CleanReward)

ReputationAfterNoCeiling(score, is_threat) ==
    IF is_threat THEN Max(MinReputation, score - ThreatPenalty)
    ELSE score + CleanReward

\* The score after the update rule ran twice.
ReputationAfterTwice(score, is_threat) ==
    IF is_threat THEN Max(MinReputation, score - 2 * ThreatPenalty)
    ELSE Min(MaxReputation, score + 2 * CleanReward)

ReputationAfter(score, is_threat) ==
    IF is_threat THEN Max(MinReputation, score - ThreatPenalty)
    ELSE Min(MaxReputation, score + CleanReward)

\* calculate_reputation_score(ip, is_threat)
CalculateReputationScore(ip, is_threat) ==
    LET new == ReputationAfter(GetReputation(reputation_scores, ip), is_threat) IN
    /\ reputation_scores' = [reputation_scores EXCEPT ![ip] = new]
    /\ repCall' = [ip |-> ip, is_threat |-> is_threat,
                   fresh |-> reputation_scores[ip] = Absent,
                   ret |-> reputation_scores'[ip]]
    /\ UNCHANGED <<logVars, anVars>>

AnalyzerNext ==
    \E ip \in IPs, is_threat \in BOOLEAN : CalculateReputationScore(ip, is_threat)

AnalyzerSpec == Init /\ [][AnalyzerNext]_vars

\* ---------------------------------------------------- the signal analysers
\* Numbers: a confidence is held in hundredths (0.9 is 90), a weight in
\* tenths, a weighted confidence in thousandths and a final confidence and a
\* threshold in millionths, so that every product of the code is an exact
\* integer. The rounding of binary floating point is not represented.
\*
\* A text is the sequence of its whitespace-separated tokens, and a pattern
\* is the sequence of what it asks of consecutive tokens: a literal (compared
\* without case, re.IGNORECASE), a class of tokens, or ".*".
Star == ".*"
Tokens ==
    {"hello", "users", "go", "admin'", "OR", "'1'='1'", "union", "UNION", "ALL",
     "SELECT", "DROP", "TABLE", "';", "--", "<script>", "alert(1)", "</script>",
     "onclick="}

\* re.IGNORECASE: the token as the pattern's literal spells it.
Fold(tok) ==
    CASE tok = "union" -> "UNION"
      [] OTHER -> tok

\* The tokens a pattern element accepts.
Class(el) ==
    CASE el = "\\w+" -> {"hello", "users", "go", "OR", "union", "UNION", "ALL",
                         "SELECT", "DROP", "TABLE"}
      [] el = "(DROP|DELETE|UPDATE|INSERT)" -> {"DROP"}
      [] el = "on\\w+=" -> {"onclick="}
      [] el = "<script[^>]*>" -> {"<script>"}
      [] el = "alert\\([^)]*\\)" -> {"alert(1)"}
      [] el = "[^>]+" -> Tokens
      [] OTHER -> {t \in Tokens : Fold(t) = el}

\* The pattern matches a prefix of the tokens s.
RECURSIVE MatchHere(_, _)
MatchHere(pattern, s) ==
    IF pattern = <<>> THEN TRUE
    ELSE IF Head(pattern) = Star
    THEN \E k \in 0..Len(s) : MatchHere(Tail(pattern), SubSeq(s, k + 1, Len(s)))
    ELSE /\ s # <<>>
         /\ Head(s) \in Class(Head(pattern))
         /\ MatchHere(Tail(pattern), Tail(s))

\* re.search(pattern, text, re.IGNORECASE)
Search(pattern, text) ==
    \E i \in 1..(Len(text) + 1) : MatchHere(pattern, SubSeq(text, i, Len(text)))

\* _load_enhanced_regex_patterns(): the categories in the order of the dict,
\* each name split at "_".
regex_patterns ==
    << [category |-> <<"sql", "injection", "high", "confidence">>,
        patterns |-> << <<"UNION", "ALL", "SELECT">>,
                        <<"DROP", "TABLE", "\\w+">>,
                        <<"';", "(DROP|DELETE|UPDATE|INSERT)">>,
                        <<"WAITFOR", "DELAY", "'[^']+'">> >>],
       [category |-> <<"sql", "injection", "medium", "confidence">>,
        patterns |-> << <<"OR", "'1'='1'">>,
                        <<"UNION", "SELECT">>,
                        <<"';", "--">> >>],
       [category |-> <<"xss", "high", "confidence">>,
        patterns |-> << <<"<script[^>]*>", "alert\\([^)]*\\)", "</script>">>,
                        <<"javascript:window.open">>,
                        <<"onload=", "\"alert\"">> >>],
       [category |-> <<"xss", "medium", "confidence">>,
        patterns |-> << <<"<script[^>]*>", Star, "</script>">>,
                        <<"javascript:[^;]+;">>,
                        <<"on\\w+=", "[^>]+">> >>] >>

HighConfidenceLevel == 90      \* 0.9
MediumConfidenceLevel == 60    \* 0.6

\* 'high_confidence' in pattern_category
IsHighConfidence(category) ==
    \E i \in 1..(Len(category) - 1) :
        category[i] = "high" /\ category[i + 1] = "confidence"

ConfidenceLevel(category) ==
    IF IsHighConfidence(category) THEN HighConfidenceLevel ELSE MediumConfidenceLevel

\* pattern_category.split('_')[0]
ThreatType(category) == Head(category)

\* Some pattern of the category matches (the first match ends the category).
CategoryHit(c, text) == \E i \in 1..Len(c.patterns) : Search(c.patterns[i], text)

RECURSIVE SumSeq(_)
SumSeq(q) == IF q = <<>> THEN 0 ELSE Head(q) + SumSeq(Tail(q))

\* The result without the break: every matching pattern of a category counts.
AnalyzeWithRegexNoBreak(text) ==
    LET Matches(c) == Cardinality({j \in 1..Len(c.patterns) : Search(c.patterns[j], text)})
        Copies(x, n) == [k \in 1..n |-> x]
        Of(i, f(_)) == Copies(f(regex_patterns[i].category), Matches(regex_patterns[i]))
        threats_detected == Of(1, ThreatType) \o Of(2, ThreatType)
                                \o Of(3, ThreatType) \o Of(4, ThreatType)
        confidence_scores == Of(1, ConfidenceLevel) \o Of(2, ConfidenceLevel)
                                 \o Of(3, ConfidenceLevel) \o Of(4, ConfidenceLevel)
    IN  [threats_detected |-> threats_detected,
         confidence |-> IF confidence_scores = <<>> THEN 0
                        ELSE SumSeq(confidence_scores) \div Len(confidence_scores),
         pattern_matches |-> Len(threats_detected)]

\* analyze_with_regex(text)
AnalyzeWithRegex(text) ==
    LET hits == SelectSeq(regex_patterns, LAMBDA c : CategoryHit(c, text))
        threats_detected == [i \in 1..Len(hits) |-> ThreatType(hits[i].category)]
        confidence_scores == [i \in 1..Len(hits) |-> ConfidenceLevel(hits[i].category)]
    IN  [threats_detected |-> threats_detected,
         confidence |-> IF confidence_scores = <<>> THEN 0
                        ELSE SumSeq(confidence_scores) \div Len(confidence_scores),
         pattern_matches |-> Len(threats_detected)]

\* analyze_with_ml(text). The classifier is an input: its state is "off"
\* (use_ml false or model not trained), "error" (scoring raises) or "scored",
\* with the probability p_threat, in hundredths, that it gives to the class
\* threat; predict is the class of the larger probability (class 0 on a tie).
FullConfidence == 100   \* probabilities[0] + probabilities[1] = 1.0
MlThreatLevel(p_threat) == IF p_threat > FullConfidence - p_threat THEN 1 ELSE 0

MlConfidence(p_threat) ==
    IF MlThreatLevel(p_threat) = 1 THEN p_threat ELSE FullConfidence - p_threat

\* The result with the scores kept whatever the classifier's state.
AnalyzeWithMlKeepsScore(ml) ==
    [threat_level |-> MlThreatLevel(ml.p_threat),
     confidence |-> MlConfidence(ml.p_threat)]

AnalyzeWithMl(ml) ==
    IF ml.state # "scored"
    THEN [threat_level |-> 0, confidence |-> 0]
    ELSE [threat_level |-> MlThreatLevel(ml.p_threat),
          confidence |-> MlConfidence(ml.p_threat)]

\* analyze_with_base(log_data). The base analyzer is an input: "absent" (no
\* base analyzer configured), "alert" or "none" (what its analyze_log_line
\* returns), "error" (it raises).
BaseAlertConfidence == 70   \* 0.7
BaseNoneConfidence == 10    \* 0.1
AnalyzeWithBase(base) ==
    CASE base = "alert" -> [threat_level |-> 1, confidence |-> BaseAlertConfidence]
      [] base = "none" -> [threat_level |-> 0, confidence |-> BaseNoneConfidence]
      [] OTHER -> [threat_level |-> 0, confidence |-> 0]

\* ------------------------------------------------------ the fusion decision
HighTrustAbove == 80            \* reputación > 0.8
LowTrustBelow == 30             \* reputación < 0.3
HighTrustWeights == [base |-> 2, regex |-> 3, ml |-> 5]
LowTrustWeights == [base |-> 4, regex |-> 4, ml |-> 2]
MediumTrustWeights == [base |-> 3, regex |-> 4, ml |-> 3]
HighTrustThreshold == 900000    \* 0.9
LowTrustThreshold == 600000     \* 0.6
MediumTrustThreshold == 750000  \* 0.75
ReputationUnit == 100           \* self.reputation_scores[ip] / 100.0
FactorUnit == 1000              \* 1.0 in the adjustment factor, in thousandths
ReputationBoost == 3            \* (1.0 - reputación) * 0.3, in thousandths per point
OneConfidence == 1000000        \* min(1.0, ...)

\* The weights and the threshold chosen from the reputation, as the bucket
\* would be with the high-trust bound included.
WeightsAndThresholdInclusive(reputation) ==
    IF reputation >= HighTrustAbove
    THEN [weights |-> HighTrustWeights, confidence_threshold |-> HighTrustThreshold]
    ELSE IF reputation < LowTrustBelow
    THEN [weights |-> LowTrustWeights, confidence_threshold |-> LowTrustThreshold]
    ELSE [weights |-> MediumTrustWeights, confidence_threshold |-> MediumTrustThreshold]

\* The buckets with the thresholds of high and low trust exchanged.
WeightsAndThresholdExchanged(reputation) ==
    IF reputation > HighTrustAbove
    THEN [weights |-> HighTrustWeights, confidence_threshold |-> LowTrustThreshold]
    ELSE IF reputation < LowTrustBelow
    THEN [weights |-> LowTrustWeights, confidence_threshold |-> HighTrustThreshold]
    ELSE [weights |-> MediumTrustWeights, confidence_threshold |-> MediumTrustThreshold]

\* if reputación > 0.8: ... elif reputación < 0.3: ... else: ...
WeightsAndThreshold(reputation) ==
    IF reputation > HighTrustAbove
    THEN [weights |-> HighTrustWeights, confidence_threshold |-> HighTrustThreshold]
    ELSE IF reputation < LowTrustBelow
    THEN [weights |-> LowTrustWeights, confidence_threshold |-> LowTrustThreshold]
    ELSE [weights |-> MediumTrustWeights, confidence_threshold |-> MediumTrustThreshold]

\* The weighted sum without the classifier's term.
WeightedConfidenceNoMl(base_confidence, regex_confidence, ml_confidence, weights) ==
    base_confidence * weights.base + regex_confidence * weights.regex

\* weighted_confidence, in thousandths
WeightedConfidence(base_confidence, regex_confidence, ml_confidence, weights) ==
    base_confidence * weights.base + regex_confidence * weights.regex
        + ml_confidence * weights.ml

\* The adjustment without the reputation term.
AdjustedConfidenceNoBoost(weighted_confidence, reputation) ==
    Min(OneConfidence, weighted_confidence * FactorUnit)

\* The adjustment without the cap at 1.0.
AdjustedConfidenceNoCap(weighted_confidence, reputation) ==
    weighted_confidence * (FactorUnit + (ReputationUnit - reputation) * ReputationBoost)

\* adjusted_confidence = min(1.0, weighted_confidence * (1.0 + (1.0 - reputación) * 0.3)),
\* in millionths
AdjustedConfidence(weighted_confidence, reputation) ==
    Min(OneConfidence,
        weighted_confidence * (FactorUnit + (ReputationUnit - reputation) * ReputationBoost))

\* The comparison as it would be with equality counted as a threat.
ReachesThreshold(adjusted_confidence, confidence_threshold) ==
    adjusted_confidence >= confidence_threshold

\* is_threat = adjusted_confidence > confidence_threshold
ExceedsThreshold(adjusted_confidence, confidence_threshold) ==
    adjusted_confidence > confidence_threshold

\* _fusion_decision(base_result, regex_result, ml_result, ip), for the
\* reputation that self.reputation_scores[ip] reads.
FusionDecision(base_result, regex_result, ml_result, reputation) ==
    LET bucket == WeightsAndThreshold(reputation)
        weighted_confidence ==
            WeightedConfidence(base_result.confidence, regex_result.confidence,
                               ml_result.confidence, bucket.weights)
        adjusted_confidence == AdjustedConfidence(weighted_confidence, reputation)
    IN  [is_threat |-> ExceedsThreshold(adjusted_confidence, bucket.confidence_threshold),
         final_confidence |-> adjusted_confidence,
         weighted_confidence |-> weighted_confidence,
         reputation_factor |-> reputation,
         confidence_threshold |-> bucket.confidence_threshold,
         weights |-> bucket.weights,
         components |-> [base |-> base_result, regex |-> regex_result, ml |-> ml_result]]

\* ------------------------------------------------ the analyser's operations
\* The events analysed: payloads and paths as token sequences.
AdminOr == <<"admin'", "OR", "'1'='1'">>
Payloads ==
    { <<>>,
      <<"hello">>,
      AdminOr,
      <<"union", "ALL", "SELECT", "users">>,
      <<"';", "DROP", "TABLE", "users">>,
      <<"<script>", "alert(1)", "</script>">>,
      <<"';", "DROP", "TABLE", "users", "<script>", "alert(1)", "</script>">> }
Paths == { <<>>, <<"onclick=", "go">> }
BaseInputs == {"absent", "alert", "none", "error"}
MlProbabilities == {5, 95, 100}            \* probability of the class threat
MlInputs ==
    {[state |-> "off", p_threat |-> 0], [state |-> "error", p_threat |-> 0]}
        \cup {[state |-> "scored", p_threat |-> p] : p \in MlProbabilities}
\* The confidences given to _fusion_decision when it is called on its own.
BaseConfidences == {0, 70, 100}
RegexConfidences == {0, 50, 90, 100}
MlConfidences == {0, 50, 95, 98, 100}

\* text_to_analyze = f"{log_data.get('path', '')} {log_data.get('payload', '')}"
TextToAnalyze(log_data) == log_data.path \o log_data.payload

\* _fusion_decision(base_result, regex_result, ml_result, ip) called on its
\* own with the given confidences. Reading self.reputation_scores[ip] leaves
\* the default in the map for a source not seen before.
FusionDecisionCall(base_confidence, regex_confidence, ml_confidence, ip) ==
    LET reputation == GetReputation(reputation_scores, ip)
        base_result == [threat_level |-> 0, confidence |-> base_confidence]
        regex_result == [threats_detected |-> <<>>, confidence |-> regex_confidence,
                         pattern_matches |-> 0]
        ml_result == [threat_level |-> 0, confidence |-> ml_confidence]
    IN  /\ reputation_scores' = [reputation_scores EXCEPT ![ip] = reputation]
        /\ analysis' = [call |-> "fusion", ip |-> ip,
                        final_decision |->
                            FusionDecision(base_result, regex_result, ml_result, reputation)]
        /\ UNCHANGED <<logVars, repCall, analysed, th, updates, stats>>

\* analyze_with_regex(text) called on its own.
AnalyzeWithRegexCall(text) ==
    /\ analysis' = [call |-> "regex", text |-> text, regex_result |-> AnalyzeWithRegex(text)]
    /\ UNCHANGED <<logVars, reputation_scores, repCall, analysed, th, updates, stats>>

\* self.confidence_threshold = 0.85, in millionths
ReportingThreshold == 850000
BucketWidth == 100000   \* int(final_confidence * 10)
BucketStep == 10        \* ... * 10

\* The test with the threshold of the fusion in place of the analyser's.
ExceedsReportingThresholdOfFusion(final_decision) ==
    final_decision.final_confidence > final_decision.confidence_threshold

\* if final_decision['final_confidence'] > self.confidence_threshold:
ExceedsReportingThreshold(final_decision) ==
    final_decision.final_confidence > ReportingThreshold

\* confidence_bucket = int(final_decision['final_confidence'] * 10) * 10
ConfidenceBucket(final_confidence) == (final_confidence \div BucketWidth) * BucketStep

\* How often threat occurs in regex_result['threats_detected'].
Occurrences(threats_detected, threat) ==
    Cardinality({i \in 1..Len(threats_detected) : threats_detected[i] = threat})

\* decision_record (the timestamp and the response time are left out)
DecisionRecord(ip, final_decision, reputation) ==
    [ip |-> ip,
     final_decision |-> final_decision.is_threat,
     confidence |-> final_decision.final_confidence,
     base_confidence |-> final_decision.components.base.confidence,
     regex_confidence |-> final_decision.components.regex.confidence,
     ml_confidence |-> final_decision.components.ml.confidence,
     reputation |-> reputation,
     specific_threats |-> final_decision.components.regex.threats_detected]

\* Steps 8 of hybrid_analysis: the counters of a decision.
CountDecision(s, final_decision) ==
    LET threat == final_decision.is_threat
        sure == ExceedsReportingThreshold(final_decision)
        detected == final_decision.components.regex.threats_detected
        bucket == ConfidenceBucket(final_decision.final_confidence)
    IN  [s EXCEPT
           !.threats_detected = IF threat THEN @ + 1 ELSE @,
           !.threats_by_type = IF threat
                               THEN [k \in ThreatTypes |-> @[k] + Occurrences(detected, k)]
                               ELSE @,
           !.true_positives = IF threat /\ sure THEN @ + 1 ELSE @,
           !.false_positives = IF threat /\ ~sure THEN @ + 1 ELSE @,
           !.confidence_distribution[bucket] = @ + 1]

\* Steps 7 and 8 of hybrid_analysis: the decision is appended to the history
\* and counted.
RecordDecision(s, ip, final_decision, reputation) ==
    CountDecision([s EXCEPT !.decision_history =
                                Append(@, DecisionRecord(ip, final_decision, reputation))],
                  final_decision)

\* The decision as the fusion would take it for a source never seen before,
\* whatever the reputation map holds for the source.
HybridDecisionOfFreshSource(log_data, base, ml) ==
    FusionDecision(AnalyzeWithBase(base),
                   AnalyzeWithRegex(TextToAnalyze(log_data)),
                   AnalyzeWithMl(ml),
                   DefaultReputation)

\* hybrid_analysis(log_data), steps 1 to 4: the three analysers and the
\* fusion.
HybridDecision(log_data, base, ml) ==
    FusionDecision(AnalyzeWithBase(base),
                   AnalyzeWithRegex(TextToAnalyze(log_data)),
                   AnalyzeWithMl(ml),
                   GetReputation(reputation_scores, log_data.ip))

\* hybrid_analysis(log_data), what it changes in the analyser: the request
\* is counted, calculate_reputation_score runs with the decision, the
\* decision is recorded and counted.
HybridAnalysisEffect(log_data, final_decision) ==
    LET ip == log_data.ip
        new == ReputationAfter(GetReputation(reputation_scores, ip),
                               final_decision.is_threat)
    IN  /\ analysed' = analysed + 1
        /\ reputation_scores' = [reputation_scores EXCEPT ![ip] = new]
        /\ repCall' = [ip |-> ip, is_threat |-> final_decision.is_threat,
                       fresh |-> FALSE, ret |-> new]
        /\ stats' = RecordDecision([stats EXCEPT !.total_requests = @ + 1],
                                   ip, final_decision, new)
        /\ UNCHANGED <<logVars, th, updates>>

\* hybrid_analysis(log_data), run by one thread from start to end.
HybridAnalysis(log_data, base, ml) ==
    LET final_decision == HybridDecision(log_data, base, ml) IN
    /\ HybridAnalysisEffect(log_data, final_decision)
    /\ analysis' = [call |-> "hybrid", ip |-> log_data.ip, log_data |-> log_data,
                    base |-> base, ml |-> ml,
                    final_decision |-> final_decision,
                    reputation |-> reputation_scores'[log_data.ip]]

\* hybrid_analysis(log_data) for a log_data that is not a dict (None, a
\* string, a list): the request is counted, then log_data.get raises
\* AttributeError, which nothing in hybrid_analysis catches.
HybridAnalysisNotADict ==
    /\ analysed' = analysed + 1
    /\ stats' = [stats EXCEPT !.total_requests = @ + 1]
    /\ analysis' = [call |-> "hybrid_not_a_dict", raised |-> "AttributeError"]
    /\ UNCHANGED <<logVars, reputation_scores, repCall, th, updates>>

\* An analyser that has already scored events: the first source has any
\* reputation the update rule can produce, the second has not been seen.
FusionInit ==
    /\ LogInit
    /\ repCall = NoCall
    /\ AnInit
    /\ \E r \in {Absent} \cup (MinReputation..MaxReputation) :
          reputation_scores = [ip \in IPs |-> IF ip = "10.0.0.1" THEN r ELSE Absent]

\* _fusion_decision and analyze_with_regex applied to their inputs.
FusionNext ==
    \/ \E b \in BaseConfidences, r \in RegexConfidences, m \in MlConfidences, ip \in IPs :
          FusionDecisionCall(b, r, m, ip)
    \/ \E path \in Paths, payload \in Payloads : AnalyzeWithRegexCall(path \o payload)

FusionSpec == FusionInit /\ [][FusionNext]_vars

\* hybrid_analysis applied to events, MaxRequests times.
HybridNext ==
    \/ /\ analysed < MaxRequests
       /\ \E ip \in IPs, path \in Paths, payload \in Payloads,
             base \in BaseInputs, ml \in MlInputs :
             HybridAnalysis([ip |-> ip, path |-> path, payload |-> payload], base, ml)
    \/ /\ analysed < MaxRequests
       /\ HybridAnalysisNotADict

HybridSpec == FusionInit /\ [][HybridNext]_vars

\* ------------------------------------------------------- analyze_log_line
SeverityAbove == 800000   \* result['final_confidence'] > 0.8
PayloadSlice == 100       \* str(log_data.get('payload', ''))[:100]

RECURSIVE CharLen(_)
\* len(payload): the characters of the tokens and the blanks between them.
CharLen(text) ==
    IF text = <<>> THEN 0
    ELSE Len(Head(text)) + (IF Len(text) > 1 THEN 1 ELSE 0) + CharLen(Tail(text))

\* "|".join(result['components']['regex']['threats_detected'] or ['Suspicious'])
AlertThreatType(threats_detected) ==
    IF threats_detected = <<>> THEN <<"Suspicious">> ELSE threats_detected

\* _create_alert(result, log_data): the dict display reads result['timestamp'],
\* and raises KeyError when the decision has no such key. The payload of the
\* alert is given by its length in characters.
CreateAlert(final_decision, log_data) ==
    IF "timestamp" \notin DOMAIN final_decision
    THEN [raised |-> "KeyError"]
    ELSE [raised |-> "none",
          alert |-> [threat_type |-> AlertThreatType(final_decision.components.regex.threats_detected),
                     severity |-> IF final_decision.final_confidence > SeverityAbove
                                  THEN "HIGH" ELSE "MEDIUM",
                     payload |-> Min(PayloadSlice, CharLen(log_data.payload)),
                     source_ip |-> log_data.ip,
                     confidence |-> final_decision.final_confidence,
                     reputation |-> final_decision.reputation_factor]]

\* analyze_log_line(log_data): hybrid_analysis, then the alert of a threat
\* or None.
AnalyzeLogLine(log_data, base, ml) ==
    LET final_decision == HybridDecision(log_data, base, ml) IN
    /\ HybridAnalysisEffect(log_data, final_decision)
    /\ analysis' = [call |-> "analyze_log_line", ip |-> log_data.ip,
                    log_data |-> log_data, base |-> base, ml |-> ml,
                    final_decision |-> final_decision,
                    returned |-> IF final_decision.is_threat
                                 THEN CreateAlert(final_decision, log_data)
                                 ELSE [raised |-> "none"]]

AlertNext ==
    /\ analysed < MaxRequests
    /\ \E ip \in IPs, path \in Paths, payload \in Payloads,
          base \in BaseInputs, ml \in MlInputs :
          AnalyzeLogLine([ip |-> ip, path |-> path, payload |-> payload], base, ml)

AlertSpec == FusionInit /\ [][AlertNext]_vars

\* --------------------------------------- hybrid_analysis run by several threads
\* The events the threads analyse: one that the fusion flags at every
\* reputation and one that it never flags.
ConcurrentEvents ==
    { [payload |-> <<"';", "DROP", "TABLE", "users">>, base |-> "alert",
       ml |-> [state |-> "scored", p_threat |-> 100]],
      [payload |-> <<"hello">>, base |-> "absent",
       ml |-> [state |-> "off", p_threat |-> 0]] }

\* hybrid_analysis(log_data) begins: the read of self.stats['total_requests']
\* on the right-hand side of += 1.
HybridAnalysisStart(t, ip, e) ==
    /\ th[t].pc = "idle"
    /\ analysed < MaxConcurrentCalls
    /\ analysed' = analysed + 1
    /\ th' = [th EXCEPT ![t] = [IdleThread EXCEPT !.pc = "total_write", !.ip = ip,
                                                  !.event = e,
                                                  !.old = stats.total_requests]]
    /\ UNCHANGED <<logVars, reputation_scores, repCall, analysis, updates, stats>>

\* hybrid_analysis up to the decision: the store into
\* self.stats['total_requests'], the analysers and _fusion_decision, which
\* reads self.reputation_scores[ip].
HybridAnalysisDecide(t) ==
    LET ip == th[t].ip
        e == th[t].event
        reputation == GetReputation(reputation_scores, ip)
        final_decision ==
            FusionDecision(AnalyzeWithBase(e.base), AnalyzeWithRegex(e.payload),
                           AnalyzeWithMl(e.ml), reputation)
    IN  /\ th[t].pc = "total_write"
        /\ stats' = [stats EXCEPT !.total_requests = th[t].old + 1]
        /\ reputation_scores' = [reputation_scores EXCEPT ![ip] = reputation]
        /\ th' = [th EXCEPT ![t].pc = "rep_read",
                            ![t].is_threat = final_decision.is_threat,
                            ![t].final_decision = final_decision,
                            ![t].old = Absent]
        /\ updates' = Append(updates, <<ip, final_decision.is_threat>>)
        /\ UNCHANGED <<logVars, repCall, analysis, analysed>>

\* calculate_reputation_score: the read of self.reputation_scores[ip] on the
\* right-hand side of the assignment.
ReputationRead(t) ==
    /\ th[t].pc = "rep_read"
    /\ th' = [th EXCEPT ![t].pc = "rep_write",
                        ![t].old = GetReputation(reputation_scores, th[t].ip)]
    /\ UNCHANGED <<logVars, reputation_scores, repCall, analysis, analysed, updates, stats>>

\* calculate_reputation_score: the store into self.reputation_scores[ip].
ReputationWrite(t) ==
    /\ th[t].pc = "rep_write"
    /\ reputation_scores' =
          [reputation_scores EXCEPT ![th[t].ip] = ReputationAfter(th[t].old, th[t].is_threat)]
    /\ th' = [th EXCEPT ![t].pc = "rep_return"]
    /\ UNCHANGED <<logVars, repCall, analysis, analysed, updates, stats>>

\* calculate_reputation_score: return self.reputation_scores[ip]; then the
\* decision record is appended to the history (list.append is one step) and,
\* for a threat, self.stats['threats_detected'] is read for += 1.
ReputationReturn(t) ==
    LET reputation == reputation_scores[th[t].ip] IN
    /\ th[t].pc = "rep_return"
    /\ repCall' = [ip |-> th[t].ip, is_threat |-> th[t].is_threat, fresh |-> FALSE,
                   ret |-> reputation]
    /\ stats' = [stats EXCEPT !.decision_history =
                    Append(@, DecisionRecord(th[t].ip, th[t].final_decision, reputation))]
    /\ th' = [th EXCEPT ![t].pc = "stats_write", ![t].old = stats.threats_detected]
    /\ UNCHANGED <<logVars, reputation_scores, analysis, analysed, updates>>

\* The rest of step 8: the store into self.stats['threats_detected'] of a
\* threat, then the other counters of the decision; hybrid_analysis returns.
StatsWrite(t) ==
    /\ th[t].pc = "stats_write"
    /\ stats' = [CountDecision(stats, th[t].final_decision) EXCEPT
                    !.threats_detected = IF th[t].is_threat THEN th[t].old + 1
                                         ELSE stats.threats_detected]
    /\ th' = [th EXCEPT ![t] = IdleThread]
    /\ UNCHANGED <<logVars, reputation_scores, repCall, analysis, analysed, updates>>

ConcurrentNext ==
    \E t \in AnalyserThreads :
        \/ \E ip \in IPs, e \in ConcurrentEvents : HybridAnalysisStart(t, ip, e)
        \/ HybridAnalysisDecide(t)
        \/ ReputationRead(t)
        \/ ReputationWrite(t)
        \/ ReputationReturn(t)
        \/ StatsWrite(t)

ConcurrentSpec == Init /\ [][ConcurrentNext]_vars

\* ------------------------------- hybrid_analysis called one call after another
\* The events of a sequence of calls on an analyser just constructed: an
\* injection that the base analyzer and the classifier both report, the same
\* injection seen without a base analyzer, a harmless request, and (in
\* SequenceNext) a log_data that is not a dict.
SequenceEvents ==
    ConcurrentEvents
        \cup { [payload |-> <<"';", "DROP", "TABLE", "users">>, base |-> "absent",
                ml |-> [state |-> "scored", p_threat |-> 100]] }

SequenceNext ==
    \/ /\ analysed < MaxSequence
       /\ \E ip \in IPs, e \in SequenceEvents :
             HybridAnalysis([ip |-> ip, path |-> <<>>, payload |-> e.payload],
                            e.base, e.ml)
    \/ /\ analysed < MaxSequence
       /\ HybridAnalysisNotADict

SequenceSpec == Init /\ [][SequenceNext]_vars

\* The default configuration, PiChatAdvancedTrafficAnalyzer() with
\* base_analyzer = None: analyze_with_base returns confidence 0.0 for every
\* event. Events keep arriving until MaxSequence of them have been analysed.
DefaultConfigurationNext ==
    /\ analysed < MaxSequence
    /\ \E ip \in IPs, e \in {x \in SequenceEvents : x.base = "absent"} :
          HybridAnalysis([ip |-> ip, path |-> <<>>, payload |-> e.payload],
                         e.base, e.ml)

DefaultConfigurationSpec ==
    Init /\ [][DefaultConfigurationNext]_vars /\ WF_vars(DefaultConfigurationNext)

\* ------------------------------------------------------------------ claims
\* C10: a source never seen before has reputation 100; a call of
\* calculate_reputation_score(ip, True) sets the score of ip to
\* max(0, score - 20), a call with False sets it to min(100, score + 1); the
\* call returns the new score and leaves the score of every other source as
\* it was.
C10_ReputationUpdateRule ==
    [][(repCall' # repCall \/ reputation_scores' # reputation_scores) =>
        LET c == repCall'
            old == IF reputation_scores[c.ip] = Absent
                   THEN 100 ELSE reputation_scores[c.ip]
        IN  /\ c.is_threat => c.ret = (IF old - 20 > 0 THEN old - 20 ELSE 0)
            /\ ~c.is_threat => c.ret = (IF old + 1 < 100 THEN old + 1 ELSE 100)
            /\ reputation_scores'[c.ip] = c.ret
            /\ \A o \in IPs \ {c.ip} : reputation_scores'[o] = reputation_scores[o]
      ]_vars

\* C10 witness: a threat was scored for a source never seen before (100 -> 80),
\* and the other source holds a score at the floor.
C10_Witness ==
    /\ repCall.fresh /\ repCall.is_threat /\ repCall.ret = 80
    /\ \E o \in IPs \ {repCall.ip} : reputation_scores[o] = 0

\* C11: in every reachable state the reputation of every source is an integer
\* in 0..100 (a source not yet seen reads as 100); a threat update never
\* raises the reputation of its source and a non-threat update never lowers
\* it.
C11_ReputationBounds ==
    /\ [](\A ip \in IPs :
            GetReputation(reputation_scores, ip) \in MinReputation..MaxReputation)
    /\ [][(repCall' # repCall \/ reputation_scores' # reputation_scores) =>
            LET c == repCall'
                old == GetReputation(reputation_scores, c.ip)
                new == GetReputation(reputation_scores', c.ip)
            IN  /\ c.is_threat => new <= old
                /\ ~c.is_threat => new >= old
          ]_vars

\* C11 witness: a non-threat update has left a known source at the ceiling
\* while another source sits at the floor.
C11_Witness ==
    /\ ~repCall.fresh /\ ~repCall.is_threat /\ repCall.ret = 100
    /\ \E o \in IPs \ {repCall.ip} : reputation_scores[o] = 0

\* The reputations that the updates with the indices idx, applied one after
\* another in any order, produce from score.
RECURSIVE Outcomes(_, _)
Outcomes(score, idx) ==
    IF idx = {} THEN {score}
    ELSE UNION {Outcomes(ReputationAfter(score, updates[i][2]), idx \ {i}) : i \in idx}

UpdatesOf(ip) == {i \in 1..Len(updates) : updates[i][1] = ip}

\* C12: when every hybrid_analysis call of the threads has ended, the
\* reputation of each source is what its updates produce from 100 when
\* applied one after another in some order.
C12_NoLostReputationUpdate ==
    (\A t \in AnalyserThreads : th[t].pc = "idle") =>
        \A ip \in IPs :
            GetReputation(reputation_scores, ip) \in Outcomes(DefaultReputation, UpdatesOf(ip))

\* C13: a decision of _fusion_decision for a source of reputation r uses the
\* weights (base 0.2, regex 0.3, classifier 0.5) and the threshold 0.9 iff
\* r > 80, the weights (0.4, 0.4, 0.2) and the threshold 0.6 iff r < 30, and
\* the weights (0.3, 0.4, 0.3) and the threshold 0.75 for every r in 30..80;
\* the three weights always sum to 1.
C13_FusionBuckets ==
    analysis.call = "fusion" =>
        LET d == analysis.final_decision
            r == d.reputation_factor
            high == /\ d.weights = [base |-> 2, regex |-> 3, ml |-> 5]
                    /\ d.confidence_threshold = 900000
            low == /\ d.weights = [base |-> 4, regex |-> 4, ml |-> 2]
                   /\ d.confidence_threshold = 600000
            medium == /\ d.weights = [base |-> 3, regex |-> 4, ml |-> 3]
                      /\ d.confidence_threshold = 750000
        IN  /\ r = reputation_scores[analysis.ip]
            /\ high <=> r > 80
            /\ low <=> r < 30
            /\ (r >= 30 /\ r <= 80) => medium
            /\ d.weights.base + d.weights.regex + d.weights.ml = 10

\* C13 witness: a decision at the bound of the high-trust bucket (80), which
\* takes the medium weights.
C13_Witness ==
    /\ analysis.call = "fusion"
    /\ analysis.final_decision.reputation_factor = 80
    /\ analysis.final_decision.confidence_threshold = 750000

\* C14: a decision has weighted = base*w.base + regex*w.regex + ml*w.ml,
\* final_confidence = min(1.0, weighted * (1 + (1 - r) * 0.3)), and is a
\* threat iff final_confidence is strictly above the threshold of its bucket.
C14_FusionDecisionRule ==
    analysis.call = "fusion" =>
        LET d == analysis.final_decision
            w == d.weights
            weighted == d.components.base.confidence * w.base
                            + d.components.regex.confidence * w.regex
                            + d.components.ml.confidence * w.ml
            adjusted == weighted * (1000 + (100 - d.reputation_factor) * 3)
        IN  /\ d.weighted_confidence = weighted
            /\ d.final_confidence = (IF adjusted < 1000000 THEN adjusted ELSE 1000000)
            /\ d.is_threat <=> d.final_confidence > d.confidence_threshold

\* C14 witness: a decision whose final confidence equals its threshold, and
\* which is not a threat.
C14_Witness ==
    /\ analysis.call = "fusion"
    /\ analysis.final_decision.final_confidence
          = analysis.final_decision.confidence_threshold
    /\ ~analysis.final_decision.is_threat

\* The decision was made for reputation r from regex confidence 0.5,
\* classifier confidence 0.5 and base confidence 0.
HalfHalfFixture(r) ==
    /\ analysis.call = "fusion"
    /\ analysis.final_decision.reputation_factor = r
    /\ analysis.final_decision.components.base.confidence = 0
    /\ analysis.final_decision.components.regex.confidence = 50
    /\ analysis.final_decision.components.ml.confidence = 50

\* C15: for reputation 100, regex confidence 0.5, classifier confidence 0.5
\* and base confidence 0 the decision has weighted_confidence 0.40,
\* final_confidence 0.40, threshold 0.9 and is not a threat.
C15_HighTrustFixture ==
    HalfHalfFixture(100) =>
        /\ analysis.final_decision.weighted_confidence = 400
        /\ analysis.final_decision.final_confidence = 400000
        /\ analysis.final_decision.confidence_threshold = 900000
        /\ analysis.final_decision.is_threat = FALSE

\* C15 witness: the fixture's decision has been made at reputation 100.
C15_Witness ==
    /\ HalfHalfFixture(100)
    /\ reputation_scores[analysis.ip] = 100

\* C16: for reputation 20 and the same signals the decision has
\* weighted_confidence 0.30, final_confidence 0.372, threshold 0.6 and is not
\* a threat.
C16_LowTrustFixture ==
    HalfHalfFixture(20) =>
        /\ analysis.final_decision.weighted_confidence = 300
        /\ analysis.final_decision.final_confidence = 372000
        /\ analysis.final_decision.confidence_threshold = 600000
        /\ analysis.final_decision.is_threat = FALSE

\* C16 witness: the fixture's decision has been made at reputation 20.
C16_Witness ==
    /\ HalfHalfFixture(20)
    /\ reputation_scores[analysis.ip] = 20

\* C17: for a source of reputation 20 and no base analyzer, the event whose
\* text is admin' OR '1'='1' gets regex confidence 0.9, and with classifier
\* confidence 0.95 the decision has weighted_confidence 0.55,
\* final_confidence 0.682 and is a threat.
C17_PositiveFixture ==
    (/\ analysis.call = "hybrid"
     /\ TextToAnalyze(analysis.log_data) = AdminOr
     /\ analysis.base = "absent"
     /\ analysis.final_decision.reputation_factor = 20
     /\ analysis.final_decision.components.ml.threat_level = 1
     /\ analysis.final_decision.components.ml.confidence = 95)
    => /\ analysis.final_decision.components.regex.confidence = 90
       /\ analysis.final_decision.weighted_confidence = 550
       /\ analysis.final_decision.final_confidence = 682000
       /\ analysis.final_decision.is_threat = TRUE

\* C18: the confidence of every analyze_with_regex result is in [0,1], and
\* so are the weighted_confidence and the final_confidence of every decision
\* made from confidences in [0,1], for every reputation.
C18_ConfidenceBounds ==
    /\ analysis.call = "regex" =>
          (analysis.regex_result.confidence >= 0 /\ analysis.regex_result.confidence <= 100)
    /\ analysis.call = "fusion" =>
          /\ analysis.final_decision.weighted_confidence >= 0
          /\ analysis.final_decision.weighted_confidence <= 1000
          /\ analysis.final_decision.final_confidence >= 0
          /\ analysis.final_decision.final_confidence <= 1000000

\* C18 witness: a decision whose adjusted confidence was cut to 1.0.
C18_Witness ==
    /\ analysis.call = "fusion"
    /\ analysis.final_decision.final_confidence = 1000000
    /\ analysis.final_decision.weighted_confidence
          * (1000 + (100 - analysis.final_decision.reputation_factor) * 3) > 1000000

\* C19: every decision of hybrid_analysis that is a threat has a category
\* detected by analyze_with_regex or a classifier result that predicts a
\* threat, for every reputation and with or without a base analyzer.
C19_EvidenceBehindThreat ==
    (analysis.call = "hybrid" /\ analysis.final_decision.is_threat)
    => \/ analysis.final_decision.components.regex.threats_detected # <<>>
       \/ analysis.final_decision.components.ml.threat_level = 1

\* C20: the classifier confidence that enters the weighted sum is the
\* probability of the class threat, also when the classifier predicts
\* non-threat.
C20_ClassifierSignalIsThreatProbability ==
    (analysis.call = "hybrid" /\ analysis.ml.state = "scored")
    => analysis.final_decision.components.ml.confidence = analysis.ml.p_threat

\* C21: when the classifier is disabled, not trained, or raises while
\* scoring, hybrid_analysis returns a decision whose classifier signal is
\* threat_level 0 with confidence 0.0, and that decision is the one computed
\* from the base and regex signals with classifier confidence 0.
C21_ClassifierDegradation ==
    (analysis.call = "hybrid" /\ analysis.ml.state \in {"off", "error"}) =>
        LET d == analysis.final_decision
            none == [threat_level |-> 0, confidence |-> 0]
        IN  /\ d.components.ml = none
            /\ d = FusionDecision(AnalyzeWithBase(analysis.base),
                                  AnalyzeWithRegex(TextToAnalyze(analysis.log_data)),
                                  none, d.reputation_factor)
            /\ d.weighted_confidence =
                  d.components.base.confidence * d.weights.base
                      + d.components.regex.confidence * d.weights.regex

\* C21 witness: the classifier raised while scoring, and the base and regex
\* signals alone made the decision a threat.
C21_Witness ==
    /\ analysis.call = "hybrid"
    /\ analysis.ml.state = "error"
    /\ analysis.base = "alert"
    /\ analysis.final_decision.components.regex.threats_detected # <<>>
    /\ analysis.final_decision.is_threat

\* C22: for every well-formed event analyze_log_line returns None when the
\* decision is not a threat; when it is a threat it returns, without raising,
\* an alert whose severity is HIGH iff final_confidence > 0.8 and MEDIUM
\* otherwise, whose payload has at most 200 characters, and whose confidence
\* and reputation are those of the decision.
C22_ThreatYieldsAlert ==
    analysis.call = "analyze_log_line" =>
        LET d == analysis.final_decision
            r == analysis.returned
        IN  /\ r.raised = "none"
            /\ ~d.is_threat <=> DOMAIN r = {"raised"}
            /\ d.is_threat =>
                  /\ r.alert.severity = (IF d.final_confidence > 800000
                                         THEN "HIGH" ELSE "MEDIUM")
                  /\ r.alert.payload <= 200
                  /\ r.alert.confidence = d.final_confidence
                  /\ r.alert.reputation = d.reputation_factor

\* C23: hybrid_analysis of an event that is not a dict rejects it without
\* raising and counts it, and the event changes no reputation, no threat
\* counter and no decision history.
C23_MalformedInputRejected ==
    [][(analysed' # analysed /\ analysis'.call = "hybrid_not_a_dict") =>
          /\ analysis'.raised = "none"
          /\ stats' # stats
          /\ reputation_scores' = reputation_scores
          /\ stats'.threats_detected = stats.threats_detected
          /\ stats'.decision_history = stats.decision_history
      ]_vars

\* C24: in the result of analyze_with_regex each pattern category adds at
\* most one hit (its first matching pattern ends it), a category with no
\* matching pattern adds nothing, and the confidence is the mean of the tier
\* confidences (0.9 for a high_confidence category, 0.6 for the others) of
\* the categories that matched, or 0.0 when none matched; the result is
\* determined by the text.
C24_RegexSignal ==
    analysis.call = "regex" =>
        LET r == analysis.regex_result
            matched == {i \in 1..4 :
                          \E j \in 1..Len(regex_patterns[i].patterns) :
                              Search(regex_patterns[i].patterns[j], analysis.text)}
            tier(i) == IF i \in {1, 3} THEN 90 ELSE 60
            types == <<"sql", "sql", "xss", "xss">>
            n == Cardinality(matched)
            high == Cardinality(matched \cap {1, 3})
        IN  /\ r.pattern_matches = n
            /\ Len(r.threats_detected) = n
            /\ \A k \in 1..n :
                  \E i \in matched :
                      /\ Cardinality({m \in matched : m < i}) = k - 1
                      /\ r.threats_detected[k] = types[i]
            /\ n = 0 => r.confidence = 0
            /\ n > 0 => r.confidence * n = 90 * high + 60 * (n - high)

\* C24 witness: a text that two patterns of sql_injection_high_confidence
\* match and that both xss categories match: three hits, mean 0.8.
C24_Witness ==
    /\ analysis.call = "regex"
    /\ analysis.regex_result.threats_detected = <<"sql", "xss", "xss">>
    /\ analysis.regex_result.confidence = 80
    /\ Search(<<"DROP", "TABLE", "\\w+">>, analysis.text)
    /\ Search(<<"';", "(DROP|DELETE|UPDATE|INSERT)">>, analysis.text)

\* C26: when the hybrid_analysis calls that several threads made have all
\* completed, total_requests equals the number of calls, threats_detected
\* equals the number of calls whose decision was a threat, and
\* decision_history holds one record per call.
C26_NoLostStatistics ==
    (\A t \in AnalyserThreads : th[t].pc = "idle") =>
        /\ stats.total_requests = analysed
        /\ stats.threats_detected
              = Cardinality({i \in 1..Len(updates) : updates[i][2]})
        /\ Len(stats.decision_history) = analysed

\* C29: one call of hybrid_analysis for a source changes the reputation of
\* that source by exactly one application of the update rule, applied to the
\* reputation the decision was computed with (-20, not below 0, for a threat;
\* +1, not above 100, otherwise), and leaves the reputation of every other
\* source unchanged.
C29_ReputationMutatedOnce ==
    [][(analysed' # analysed /\ analysis'.call = "hybrid") =>
          LET ip == analysis'.ip
              d == analysis'.final_decision
              old == IF reputation_scores[ip] = Absent THEN 100 ELSE reputation_scores[ip]
              new == reputation_scores'[ip]
          IN  /\ d.reputation_factor = old
              /\ d.is_threat => new = (IF old - 20 > 0 THEN old - 20 ELSE 0)
              /\ ~d.is_threat => new = (IF old + 1 < 100 THEN old + 1 ELSE 100)
              /\ \A o \in IPs \ {ip} : reputation_scores'[o] = reputation_scores[o]
      ]_vars

\* C29 witness: a threat from a source never seen before took it from 100 to
\* 80 while the other source kept its reputation of 50.
C29_Witness ==
    /\ analysis.call = "hybrid"
    /\ analysis.ip = "10.0.0.2"
    /\ analysis.final_decision.is_threat
    /\ analysis.final_decision.reputation_factor = 100
    /\ reputation_scores["10.0.0.2"] = 80
    /\ reputation_scores["10.0.0.1"] = 50

\* C30: each recorded decision increments the histogram bucket
\* floor(final_confidence * 10) * 10, a value in {0, 10, ..., 100}; each
\* threat decision increments true_positives iff final_confidence > 0.85,
\* whatever threshold the fusion used, and false_positives otherwise; a
\* decision that is not a threat changes neither counter.
C30_StatisticsClassification ==
    [][(analysed' # analysed /\ analysis'.call = "hybrid") =>
          LET d == analysis'.final_decision
              bucket == CHOOSE b \in {0, 10, 20, 30, 40, 50, 60, 70, 80, 90, 100} :
                            b * 10000 <= d.final_confidence
                                /\ d.final_confidence < (b + 10) * 10000
              tp == IF d.is_threat /\ d.final_confidence > 850000 THEN 1 ELSE 0
              fp == IF d.is_threat /\ d.final_confidence <= 850000 THEN 1 ELSE 0
          IN  /\ \A b \in DOMAIN stats.confidence_distribution :
                    stats'.confidence_distribution[b] =
                        stats.confidence_distribution[b] + (IF b = bucket THEN 1 ELSE 0)
              /\ stats'.true_positives = stats.true_positives + tp
              /\ stats'.false_positives = stats.false_positives + fp
              /\ Len(stats'.decision_history) = Len(stats.decision_history) + 1
      ]_vars

\* C30 witness: a threat decision taken in the low-trust bucket with a final
\* confidence between its threshold 0.6 and 0.85 was counted as a false
\* positive in the bucket 60.
C30_Witness ==
    /\ analysis.call = "hybrid"
    /\ analysis.final_decision.is_threat
    /\ analysis.final_decision.confidence_threshold = 600000
    /\ analysis.final_decision.final_confidence < 700000
    /\ stats.false_positives = 1
    /\ stats.true_positives = 0
    /\ stats.confidence_distribution[60] = 1

\* C31: the statistics keep a bounded rolling window of the most recent
\* decisions: there is a window B, smaller than the number of decisions that
\* can be recorded, such that decision_history never holds more than B
\* records. With MaxSequence decisions recorded in a run, the largest such B
\* is MaxSequence - 1.
C31_DecisionHistoryBounded ==
    Len(stats.decision_history) <= MaxSequence - 1

C37_LowerTrustNeverHelps ==
    (analysis.call = "fusion" /\ analysis.final_decision.is_threat) =>
        LET d == analysis.final_decision IN
        \A lower \in 0..(d.reputation_factor - 1) :
            FusionDecision(d.components.base, d.components.regex,
                           d.components.ml, lower).is_threat

\* C37 witness: confidences that make a threat at reputation 100 without
\* reaching the cap of 1.0, so that the reputations below span the three
\* buckets.
C37_Witness ==
    /\ analysis.call = "fusion"
    /\ analysis.final_decision.is_threat
    /\ analysis.final_decision.reputation_factor = 100
    /\ analysis.final_decision.final_confidence < 1000000

\* The reputation that the decisions recorded in history for source ip
\* produce, one after the other, from the default 100.
RECURSIVE ReputationFromHistory(_, _)
ReputationFromHistory(history, ip) ==
    IF history = <<>> THEN 100
    ELSE LET before == ReputationFromHistory(SubSeq(history, 1, Len(history) - 1), ip)
             last == history[Len(history)]
         IN  IF last.ip # ip THEN before
             ELSE IF last.final_decision
                  THEN (IF before - 20 > 0 THEN before - 20 ELSE 0)
                  ELSE (IF before + 1 < 100 THEN before + 1 ELSE 100)

\* C38: the k-th decision for a source is computed with the reputation that
\* its first k-1 decisions produced (its reputation factor, and so its weights
\* and threshold, are those of that reputation), and its own outcome goes
\* into the reputation that the record of the decision reports, which the
\* next decision for the source is computed with.
C38_DecisionUsesEarlierReputation ==
    [][(analysed' # analysed /\ analysis'.call = "hybrid") =>
          LET ip == analysis'.ip
              d == analysis'.final_decision
              before == ReputationFromHistory(stats.decision_history, ip)
              record == stats'.decision_history[Len(stats'.decision_history)]
          IN  /\ d.reputation_factor = before
              /\ d.confidence_threshold = (IF before > 80 THEN 900000
                                           ELSE IF before < 30 THEN 600000
                                           ELSE 750000)
              /\ record.ip = ip
              /\ record.reputation = ReputationFromHistory(stats'.decision_history, ip)
              /\ reputation_scores'[ip] = record.reputation
      ]_vars

\* C38 witness: the fifth decision for a source, after four threats took it
\* from 100 to 20: it is taken in the low-trust bucket, is a threat, and
\* leaves the source at 0.
C38_Witness ==
    /\ analysis.call = "hybrid"
    /\ Len(stats.decision_history) = 5
    /\ \A k \in 1..5 : stats.decision_history[k].ip = analysis.ip
    /\ analysis.final_decision.reputation_factor = 20
    /\ analysis.final_decision.is_threat
    /\ reputation_scores[analysis.ip] = 0

\* C39: after any sequence of sequential hybrid_analysis calls,
\* true_positives + false_positives = threats_detected <= total_requests, the
\* confidence_distribution buckets sum to total_requests, decision_history
\* has total_requests records, and threats_detected of them have
\* final_decision true.
C39_CounterConsistency ==
    /\ stats.true_positives + stats.false_positives = stats.threats_detected
    /\ stats.threats_detected <= stats.total_requests
    /\ stats.confidence_distribution[0] + stats.confidence_distribution[10]
          + stats.confidence_distribution[20] + stats.confidence_distribution[30]
          + stats.confidence_distribution[40] + stats.confidence_distribution[50]
          + stats.confidence_distribution[60] + stats.confidence_distribution[70]
          + stats.confidence_distribution[80] + stats.confidence_distribution[90]
          + stats.confidence_distribution[100] = stats.total_requests
    /\ Len(stats.decision_history) = stats.total_requests
    /\ Cardinality({k \in 1..Len(stats.decision_history) :
                       stats.decision_history[k].final_decision})
          = stats.threats_detected

\* ------------------------------------------------ the logger's claims
\* How often entry e is found among the rows of a file.
RECURSIVE CountIn(_, _)
CountIn(rows, e) ==
    IF rows = <<>> THEN 0
    ELSE (IF Head(rows) = e THEN 1 ELSE 0) + CountIn(Tail(rows), e)

RECURSIVE CountArchive(_, _)
CountArchive(s, e) ==
    IF s < 0 THEN 0 ELSE CountIn(archive[s], e) + CountArchive(s - 1, e)

\* The rows of entry e in the active file, the archived files and emergency.log.
Persisted(e) == CountIn(file, e) + CountArchive(MaxClock, e) + CountIn(emergency, e)

\* Every thread has finished: the worker has ended, no background flush
\* thread is running or waiting, no caller is inside a call.
Quiescent ==
    /\ WorkerEnded
    /\ pc[Bg] = "none"
    /\ bgPending = 0
    /\ \A c \in Callers : pc[c] = "idle"

Passed == 1..(nextId - 1)            \* the entries passed to log_event so far
Held(e) == \E t \in Threads : log_entry[t] = e
Recorded(e) == e \in Range(written) \/ e \in Range(emergency)
Pos(e) == CHOOSE i \in 1..Len(written) : written[i] = e

\* The log files that exist: the active file and the archived ones.
LogFiles == {f \in {file} \cup {archive[s] : s \in 0..MaxClock} : Exists(f)}

\* C25: every entry that log_event accepts has as many data fields as header
\* fields, and every data row of a log file has as many columns as the
\* header row of that file (the header row is written together with the data
\* row that follows it).
C25_RowsMatchHeader ==
    /\ \A e \in Passed :
          (e \in Range(log_buffer) \/ result[e] = "true") => DataFields(e) = HeaderFields(e)
    /\ \A f \in LogFiles :
          \A i \in 1..Len(f) :
              (f[1] = HeaderRow /\ Len(f) >= 2 /\ f[i] # HeaderRow)
                  => DataColumns(f[i]) = HeaderColumns(f[2])

\* C27: after a successful put_nowait, log_event starts a background flush
\* iff the queue then holds at least half of buffer_size entries, and it
\* returns True without waiting for that flush.
C27_HalfCapacityTrigger ==
    [][\A t \in Callers :
          (pc[t] = "le_qsize" /\ pc'[t] = "idle") =>
              /\ (bgPending' = bgPending + 1) <=> (2 * Len(log_buffer) >= buffer_size)
              /\ (bgPending' = bgPending) <=> (2 * Len(log_buffer) < buffer_size)
              /\ result'[cur[t]] = "true"
      ]_vars

\* C28: every log file, active or archived, has exactly one header row, and
\* it is the first row of the file; every other row is the data row of an
\* entry. Stated for runs in which no file system call fails.
C28_OneHeaderFirst ==
    faults = 0 =>
        \A f \in LogFiles :
            /\ Len(f) >= 1
            /\ f[1] = HeaderRow
            /\ \A i \in 2..Len(f) : f[i] \in Entries

\* C1: when N entries were passed to log_event and shutdown() was called after
\* these calls, then once shutdown has returned (and every thread has finished)
\* each of the N entries is found exactly once among the rows of the active
\* file, the archived files and emergency.log. Stated for runs in which no
\* file system call fails and no exception has left the write path.
C1_ExactlyOncePersisted ==
    (sdReturned >= 1 /\ sdRaised = 0 /\ ~lateLog /\ Quiescent
        /\ faults = 0 /\ escaped = {})
        => \A e \in Passed : Persisted(e) = 1

\* C2: an entry for which log_event returned True is never lost: it is in the
\* queue, in the hands of a thread that is writing it, or recorded in a log
\* file or in emergency.log (an entry that is none of these can never be
\* delivered). Stated for runs in which no file system call fails.
C2_AcceptedNeverLost ==
    faults = 0 =>
        \A e \in Passed :
            result[e] = "true" => (e \in Range(log_buffer) \/ Held(e) \/ Recorded(e))

\* C3: once shutdown() has returned and the worker has ended, every entry that
\* was in the queue when shutdown was called is recorded in a log file or in
\* emergency.log, and the queue is empty unless log_event ran at or after the
\* shutdown call. Stated for runs in which no file system call fails.
C3_ShutdownDrains ==
    (sdReturned >= 1 /\ sdRaised = 0 /\ WorkerEnded /\ faults = 0)
        => /\ sdSnap = {}
           /\ ~lateLog => log_buffer = <<>>

\* C4: of two entries accepted by log_event calls that did not overlap, the
\* one accepted first is written to the log file first.
C4_FifoPerLogType ==
    (~overlap /\ faults = 0) =>
        \A a, b \in Passed :
            (a < b /\ result[a] = "true" /\ result[b] = "true"
                /\ a \in Range(written) /\ b \in Range(written))
            => Pos(a) < Pos(b)

\* C5: a log_event call that has ended has not dropped its entry: the entry
\* is in the queue, being written, or recorded in a log file or emergency.log;
\* a call that returned False sent it to the emergency path; no call raises.
\* Stated for runs in which no file system call fails.
C5_BackpressureNeverDrops ==
    faults = 0 =>
        \A e \in Passed :
            /\ result[e] # "raised"
            /\ result[e] # "none" =>
                  (e \in Range(log_buffer) \/ Held(e) \/ Recorded(e))

\* C6: no exception leaves the write path: a failure of the write path
\* (rotation included) never ends the worker, never reaches the caller of
\* log_event or shutdown, and never drops the entry being written.
C6_WriteFailuresNeverEscape ==
    /\ escaped = {}
    /\ pc[Worker] # "dead"
    /\ sdRaised = 0
    /\ \A e \in Entries : result[e] # "raised"

\* C7: a write that finds its log file at or above max_file_size goes on to
\* write its entry: the rotation does not end the write, and when _rotate_log
\* has renamed the file, the file is in the archive and no file is left at the
\* active path, so that the entry goes to a newly created file. Stated for
\* steps in which no file system call fails.
C7_RotationBeforeWrite ==
    [][\A t \in Threads :
          (pc[t] \in {"w_rot_exists", "w_rename"} /\ faults' = faults
              /\ pc'[t] # pc[t])
          => /\ log_entry'[t] = log_entry[t]
             /\ pc'[t] \in {"w_rename", "w_fexists"}
             /\ pc[t] = "w_rename" =>
                   (file' = NoFile /\ archive'[ArchivedPath(now)] = file)
      ]_vars

\* C8: a second shutdown() call made after the first has returned, with no
\* log_event at or after the first call, does not raise, and no step of it
\* changes the log file, the archived files, emergency.log or the queue.
C8_ShutdownIdempotent ==
    [][(sdReturned >= 1 /\ ~lateLog /\ pc'[Owner] # pc[Owner]
          /\ (op[Owner] = "shutdown" \/ op'[Owner] = "shutdown"))
        => /\ UNCHANGED <<file, archive, emergency, log_buffer>>
           /\ sdRaised' = sdRaised
      ]_vars

\* A second shutdown() has returned after a first one that had entries to
\* leave on disk.
C8_Witness ==
    /\ sdReturned = 2
    /\ sdRaised = 0
    /\ ~lateLog
    /\ written # <<>>

\* C9: a log_event call that started after shutdown() was called starts no
\* background flush thread.
C9_NoBackgroundFlushAfterShutdown ==
    [][\A t \in Callers :
          (pc[t] = "le_qsize" /\ afterSd[t] /\ pc'[t] = "idle")
          => bgPending' = bgPending
      ]_vars

\* C33: archives are never overwritten: no step changes or removes an
\* archived file that exists, so every rotation renames the active file to
\* an archive path that no earlier rotation has used, two rotations within
\* the same clock second included.
C33_ArchivesNeverOverwritten ==
    [][\A s \in 0..MaxClock : Exists(archive[s]) => archive'[s] = archive[s]]_vars

\* C34: the flush worker stays alive until shutdown: as long as shutdown()
\* has not been called, the worker thread has not ended, whatever the outcome
\* of the writes and rotations (success, write error, rename error).
C34_WorkerAliveUntilShutdown ==
    sdCalled = 0 => ~WorkerEnded

\* C35: in every reachable state the log queue holds at most buffer_size
\* entries, for every buffer_size the constructor accepts.
C35_QueueBound ==
    Len(log_buffer) <= buffer_size

\* C32: blocking is bounded: the synchronous flush that a log_event call
\* starts on a full queue ends after taking and writing at most buffer_size
\* entries, also while other producers keep calling log_event (so that the
\* call, and every call waiting for the flush lock behind it, returns).
C32_SynchronousFlushBounded ==
    \A t \in Callers : flushed[t] <= buffer_size
====
